---- MODULE Spec2Model ----
(***************************************************************************)
(* Model of the webhook daemon (aguss787/webhook): one pipeline            *)
(* (src/event/mod.rs) with its puller tasks, the rendezvous hand-off queue *)
(* (src/event/queue.rs), the drain signal (src/event/utils/sync.rs), the   *)
(* HTTP sender (src/event/sender/http.rs) and the state store used by the  *)
(* process program (src/event/process/mod.rs, operation.rs).               *)
(*                                                                         *)
(* Scheduling assumption: every spawned tokio task gets a worker thread;   *)
(* the blocking crossbeam calls made inside tasks do not starve the        *)
(* runtime.  A panic of the pipeline future unwinds `main` (it is polled   *)
(* by `p.await` in main.rs), so the loop position "panicked" is final.     *)
(***************************************************************************)
EXTENDS Integers, Sequences, FiniteSets, TLC

\* ------------------------------------------------------------------ bounds
MaxMsgs == 2        \* messages the sources hand out in one run
NumPullers == 2     \* event.trigger entries (one puller task each)
MaxCalls == 2       \* calls of the drain invoker in one run
NumPipelines == 2   \* events the executor is started with
MaxSets == 2        \* calls of State::set on one State object
MaxOps == 2         \* ops of an event.process run alone
MaxPulls == 14      \* pull responses one puller receives

Pullers == 1..NumPullers
MsgIds == 1..MaxMsgs
NoMsg == 0

\* event.target: two senders, each with one POST endpoint
SenderEndpoints == <<1, 1>>
Senders == 1..Len(SenderEndpoints)
EndpointsOf(s) == {<<s, e>> : e \in 1..SenderEndpoints[s]}
AllEndpoints == UNION {EndpointsOf(s) : s \in Senders}

\* ------------------------------------------------- items and identifiers
\* process::Value and process::Item
NoneValue == [t |-> "None"]
IntValue(i) == [t |-> "Int", i |-> i]
StringValue(s) == [t |-> "String", s |-> s]
VecItem(v) == [t |-> "Array", v |-> v]
MapItem(m) == [t |-> "Map", m |-> m]
EmptyMap == <<>>

\* Option<T>
None == [some |-> FALSE]
Some(x) == [some |-> TRUE, v |-> x]

\* An Identifier is a dotted string; it is modelled by the sequence of the
\* pieces str::split(".") yields (never empty; pieces may be "").
\* Identifier::split: the head piece, and the rest joined by "." when that
\* string is not empty (<<>> stands for the None path).
Split(id) ==
  [key |-> Head(id),
   path |-> IF Tail(id) = <<>> \/ Tail(id) = <<"">> THEN <<>> ELSE Tail(id)]

\* usize::from_str on one piece, for the pieces the model uses
FromStr(key) ==
  CASE key = "0" -> [ok |-> TRUE, idx |-> 0]
    [] key = "1" -> [ok |-> TRUE, idx |-> 1]
    [] key = "2" -> [ok |-> TRUE, idx |-> 2]
    [] key = "01" -> [ok |-> TRUE, idx |-> 1]
    [] OTHER -> [ok |-> FALSE]

\* HashMap::get / HashMap::insert
MapGet(map, key) == IF key \in DOMAIN map THEN Some(map[key]) ELSE None
MapInsert(map, key, value) ==
  [k \in DOMAIN map \cup {key} |-> IF k = key THEN value ELSE map[k]]
\* Vec::get (0-based index)
VecGet(vec, idx) == IF idx < Len(vec) THEN Some(vec[idx + 1]) ELSE None
VecPut(vec, idx, value) == [vec EXCEPT ![idx + 1] = value]

\* Value::type_name / Item::type_name
TypeName(i) == i.t

NonMapAccess(field, t) == [e |-> "NonMapAccess", field |-> field, t |-> t]
IndexOutOfBound(index, len) == [e |-> "IndexOutOfBound", index |-> index, len |-> len]
InvalidIndex == [e |-> "InvalidIndex"]

\* ------------------------------------------------------------ State::get
RECURSIVE GetFromMap(_, _), GetFromVec(_, _)
\* mutant of GetFromChild: a path that continues below a scalar yields the scalar
GetFromChildScalar(path, value) ==
  IF path = <<>> THEN value
  ELSE IF ~value.some THEN None
  ELSE CASE value.v.t = "Map" -> GetFromMap(value.v.m, path)
         [] value.v.t = "Array" -> GetFromVec(value.v.v, path)
         [] OTHER -> value

GetFromChild(path, value) ==
  IF path = <<>> THEN value
  ELSE IF ~value.some THEN None
  ELSE CASE value.v.t = "Map" -> GetFromMap(value.v.m, path)
         [] value.v.t = "Array" -> GetFromVec(value.v.v, path)
         [] OTHER -> None

GetFromMap(map, id) ==
  LET sp == Split(id) IN GetFromChild(sp.path, MapGet(map, sp.key))

GetFromVec(vec, id) ==
  LET sp == Split(id)
      p == FromStr(sp.key)
  IN GetFromChild(sp.path, IF p.ok THEN VecGet(vec, p.idx) ELSE None)

StateGet(st, id) == GetFromMap(st, id)

\* ------------------------------------------------------------ State::set
\* The result carries the container as the call leaves it (set mutates in
\* place), also when it returns an error.
SetOk(old, c) == [ok |-> TRUE, old |-> old, c |-> c]
SetErr(err, c) == [ok |-> FALSE, err |-> err, c |-> c]

RECURSIVE SetMap(_, _, _), SetVec(_, _, _)
\* mutant of SetMap: a missing intermediate key is not created, the set is dropped
SetMapNoCreate(map, id, value) ==
  LET sp == Split(id)
      key == sp.key
  IN IF sp.path = <<>>
     THEN SetOk(MapGet(map, key), MapInsert(map, key, value))
     ELSE IF key \notin DOMAIN map THEN SetOk(None, map)
     ELSE LET rec == map[key]
          IN CASE rec.t = "Map" ->
                    LET r == SetMap(rec.m, sp.path, value)
                    IN [r EXCEPT !.c = MapInsert(map, key, MapItem(r.c))]
               [] rec.t = "Array" ->
                    LET r == SetVec(rec.v, sp.path, value)
                    IN [r EXCEPT !.c = MapInsert(map, key, VecItem(r.c))]
               [] OTHER -> SetErr(NonMapAccess(key, TypeName(rec)), map)

\* mutant of SetMap: a scalar met on the way is replaced by a Map
SetMapOverScalar(map, id, value) ==
  LET sp == Split(id)
      key == sp.key
  IN IF sp.path = <<>>
     THEN SetOk(MapGet(map, key), MapInsert(map, key, value))
     ELSE LET map1 == IF key \in DOMAIN map THEN map
                      ELSE MapInsert(map, key, MapItem(EmptyMap))
              rec == map1[key]
          IN CASE rec.t = "Map" ->
                    LET r == SetMap(rec.m, sp.path, value)
                    IN [r EXCEPT !.c = MapInsert(map1, key, MapItem(r.c))]
               [] rec.t = "Array" ->
                    LET r == SetVec(rec.v, sp.path, value)
                    IN [r EXCEPT !.c = MapInsert(map1, key, VecItem(r.c))]
               [] OTHER ->
                    LET r == SetMap(EmptyMap, sp.path, value)
                    IN [r EXCEPT !.c = MapInsert(map1, key, MapItem(r.c))]

\* mutant of SetMap: the final insert does not return the value it replaced
SetMapForgetOld(map, id, value) ==
  LET sp == Split(id)
      key == sp.key
  IN IF sp.path = <<>>
     THEN SetOk(None, MapInsert(map, key, value))
     ELSE LET map1 == IF key \in DOMAIN map THEN map
                      ELSE MapInsert(map, key, MapItem(EmptyMap))
              rec == map1[key]
          IN CASE rec.t = "Map" ->
                    LET r == SetMap(rec.m, sp.path, value)
                    IN [r EXCEPT !.c = MapInsert(map1, key, MapItem(r.c))]
               [] rec.t = "Array" ->
                    LET r == SetVec(rec.v, sp.path, value)
                    IN [r EXCEPT !.c = MapInsert(map1, key, VecItem(r.c))]
               [] OTHER -> SetErr(NonMapAccess(key, TypeName(rec)), map1)

\* mutant of SetMap: the child is taken out of the map while the set
\* descends into it and is put back only when the descent succeeded
SetMapTakeChild(map, id, value) ==
  LET sp == Split(id)
      key == sp.key
  IN IF sp.path = <<>>
     THEN SetOk(MapGet(map, key), MapInsert(map, key, value))
     ELSE LET map1 == IF key \in DOMAIN map THEN map
                      ELSE MapInsert(map, key, MapItem(EmptyMap))
              rec == map1[key]
              taken == [x \in DOMAIN map1 \ {key} |-> map1[x]]
          IN CASE rec.t = "Map" ->
                    LET r == SetMap(rec.m, sp.path, value)
                    IN IF r.ok THEN [r EXCEPT !.c = MapInsert(map1, key, MapItem(r.c))]
                       ELSE [r EXCEPT !.c = taken]
               [] rec.t = "Array" ->
                    LET r == SetVec(rec.v, sp.path, value)
                    IN IF r.ok THEN [r EXCEPT !.c = MapInsert(map1, key, VecItem(r.c))]
                       ELSE [r EXCEPT !.c = taken]
               [] OTHER -> SetErr(NonMapAccess(key, TypeName(rec)), map1)

SetMap(map, id, value) ==
  LET sp == Split(id)
      key == sp.key
  IN IF sp.path = <<>>
     THEN SetOk(MapGet(map, key), MapInsert(map, key, value))
     ELSE LET map1 == IF key \in DOMAIN map THEN map
                      ELSE MapInsert(map, key, MapItem(EmptyMap))
              rec == map1[key]
          IN CASE rec.t = "Map" ->
                    LET r == SetMap(rec.m, sp.path, value)
                    IN [r EXCEPT !.c = MapInsert(map1, key, MapItem(r.c))]
               [] rec.t = "Array" ->
                    LET r == SetVec(rec.v, sp.path, value)
                    IN [r EXCEPT !.c = MapInsert(map1, key, VecItem(r.c))]
               [] OTHER -> SetErr(NonMapAccess(key, TypeName(rec)), map1)

SetVec(vec, id, value) ==
  LET sp == Split(id)
      key == sp.key
      p == FromStr(key)
  IN IF ~p.ok THEN SetErr(InvalidIndex, vec)
     ELSE LET rec == VecGet(vec, p.idx)
          IN IF sp.path = <<>>
             THEN IF rec.some THEN SetOk(Some(rec.v), VecPut(vec, p.idx, value))
                  ELSE SetOk(None, vec)
             ELSE IF ~rec.some THEN SetErr(IndexOutOfBound(p.idx, Len(vec)), vec)
             ELSE CASE rec.v.t = "Map" ->
                         LET r == SetMap(rec.v.m, sp.path, value)
                         IN [r EXCEPT !.c = VecPut(vec, p.idx, MapItem(r.c))]
                    [] rec.v.t = "Array" ->
                         LET r == SetVec(rec.v.v, sp.path, value)
                         IN [r EXCEPT !.c = VecPut(vec, p.idx, VecItem(r.c))]
                    [] OTHER -> SetErr(NonMapAccess(key, TypeName(rec.v)), vec)

StateSet(st, id, value) == SetMap(st, id, value)

\* ------------------------------------------------------------- program
\* operation::Expression and operation::Op.  The as_map of an AsMap is a
\* HashMap: it is modelled by the sequence of its entries in the order that
\* HashMap iterates them, an order the map keeps once it is built.
ItemExpr(i) == [e |-> "Item", item |-> i]
GetEnvExpr(id) == [e |-> "GetEnv", get_env |-> id]
SetEnvExpr(target, value) == [e |-> "SetEnv", target |-> target, value |-> value]
FromJsonExpr(s) == [e |-> "FromJson", from_json |-> s]
FromPayloadExpr(format) == [e |-> "FromPayload", from_payload |-> format]
AsMapExpr(entries) == [e |-> "AsMap", as_map |-> entries]
SetEnvOp(target, value) == [op |-> "SetEnv", target |-> target, value |-> value]
ToPayloadOp(format, value) == [op |-> "ToPayload", format |-> format, value |-> value]

EvalOk(item, payload, st) == [ok |-> TRUE, item |-> item, payload |-> payload, state |-> st]
EvalErr(err) == [ok |-> FALSE, err |-> err]
\* unimplemented!(): the call does not return, the thread panics
Panicked(msg) == [e |-> "panic", msg |-> msg]

\* serde_json::to_vec of an Item (untagged enums, compact output).  A Map
\* of two or more entries is written in the iteration order of its HashMap;
\* the programs of this model serialize Maps of at most one entry.
RECURSIVE ToJson(_), JoinJson(_)
ToJson(i) ==
  CASE i.t = "None" -> "null"
    [] i.t = "Int" -> ToString(i.i)
    [] i.t = "String" -> "\"" \o i.s \o "\""
    [] i.t = "Array" -> "[" \o JoinJson(i.v) \o "]"
    [] i.t = "Map" /\ DOMAIN i.m = {} -> "{}"
    [] i.t = "Map" /\ Cardinality(DOMAIN i.m) = 1 ->
         LET k == CHOOSE k \in DOMAIN i.m : TRUE
         IN "{\"" \o k \o "\":" \o ToJson(i.m[k]) \o "}"

JoinJson(vec) ==
  IF vec = <<>> THEN ""
  ELSE IF Len(vec) = 1 THEN ToJson(vec[1])
  ELSE ToJson(vec[1]) \o "," \o JoinJson(Tail(vec))

\* serde_yaml::to_vec of an Item: a document of one scalar, in the layout
\* of the serde_yaml 0.8 releases that end the document with a newline
ToYaml(i) ==
  CASE i.t = "None" -> "---\n~\n"
    [] i.t = "Int" -> "---\n" \o ToString(i.i) \o "\n"
    [] i.t = "String" -> "---\n" \o i.s \o "\n"

\* PayloadFormat::to_vec
ToVec(format, i) ==
  CASE format = "json" -> ToJson(i)
    [] format = "yaml" -> ToYaml(i)

\* PayloadFormat::parse_payload, for the payloads of this model: a text
\* that to_vec writes for a scalar or a Vec of one scalar is read back as
\* that Item (a JSON text also by the YAML reader); "oops" is a YAML plain
\* scalar and no JSON text.  None stands for the serde error, which the
\* From impl turns into unimplemented!().
Parsable ==
  { NoneValue, IntValue(1), StringValue("s"), VecItem(<<IntValue(2)>>) }
ParsePayload(format, payload) ==
  CASE \E i \in Parsable : ToJson(i) = payload ->
         Some(CHOOSE i \in Parsable : ToJson(i) = payload)
    [] format = "yaml" /\ \E i \in Parsable \ {VecItem(<<IntValue(2)>>)} : ToYaml(i) = payload ->
         Some(CHOOSE i \in Parsable \ {VecItem(<<IntValue(2)>>)} : ToYaml(i) = payload)
    [] format = "yaml" /\ payload = "oops" -> Some(StringValue("oops"))
    [] OTHER -> None

\* Expression::evaluate
RECURSIVE Evaluate(_, _, _), EvaluateEntries(_, _, _, _)
Evaluate(expr, payload, st) ==
  CASE expr.e = "SetEnv" ->
         LET r == Evaluate(expr.value, payload, st)
         IN IF ~r.ok THEN r
            ELSE LET w == StateSet(r.state, expr.target, r.item)
                 IN IF w.ok THEN EvalOk(r.item, r.payload, w.c) ELSE EvalErr(w.err)
    [] expr.e = "GetEnv" ->
         LET value == StateGet(st, expr.get_env)
         IN EvalOk(IF value.some THEN value.v ELSE NoneValue, payload, st)
    [] expr.e = "FromPayload" ->
         LET item == ParsePayload(expr.from_payload, payload)
         IN IF item.some THEN EvalOk(item.v, payload, st)
            ELSE EvalErr(Panicked("not implemented"))
    [] expr.e = "Item" -> EvalOk(expr.item, payload, st)
    [] expr.e = "FromJson" -> EvalErr(Panicked("not implemented"))
    [] expr.e = "AsMap" -> EvaluateEntries(expr.as_map, EmptyMap, payload, st)

EvaluateEntriesDropState(entries, acc, payload, st) ==
  IF entries = <<>> THEN EvalOk(MapItem(acc), payload, st)
  ELSE LET r == Evaluate(Head(entries).expr, payload, st)
       IN IF ~r.ok THEN r
          ELSE EvaluateEntries(Tail(entries), MapInsert(acc, Head(entries).key, r.item),
                               r.payload, st)

\* the fold of the AsMap arm over map.iter()
EvaluateEntries(entries, acc, payload, st) ==
  IF entries = <<>> THEN EvalOk(MapItem(acc), payload, st)
  ELSE LET r == Evaluate(Head(entries).expr, payload, st)
       IN IF ~r.ok THEN r
          ELSE EvaluateEntries(Tail(entries), MapInsert(acc, Head(entries).key, r.item),
                               r.payload, r.state)

ExecOk(payload, st) == [ok |-> TRUE, payload |-> payload, state |-> st]

ExecuteToPayloadKeepsPayload(op, payload, st) ==
  CASE op.op = "SetEnv" ->
         LET r == Evaluate(op.value, payload, st)
         IN IF ~r.ok THEN r
            ELSE LET w == StateSet(r.state, op.target, r.item)
                 IN IF w.ok THEN ExecOk(r.payload, w.c) ELSE EvalErr(w.err)
    [] op.op = "ToPayload" ->
         LET r == Evaluate(op.value, payload, st)
         IN IF ~r.ok THEN r
            ELSE ExecOk(r.payload, r.state)

ExecuteToPayloadKeepsState(op, payload, st) ==
  CASE op.op = "SetEnv" ->
         LET r == Evaluate(op.value, payload, st)
         IN IF ~r.ok THEN r
            ELSE LET w == StateSet(r.state, op.target, r.item)
                 IN IF w.ok THEN ExecOk(r.payload, w.c) ELSE EvalErr(w.err)
    [] op.op = "ToPayload" ->
         LET r == Evaluate(op.value, payload, st)
         IN IF ~r.ok THEN r
            ELSE ExecOk(ToVec(op.format, r.item), st)

\* Op::execute
Execute(op, payload, st) ==
  CASE op.op = "SetEnv" ->
         LET r == Evaluate(op.value, payload, st)
         IN IF ~r.ok THEN r
            ELSE LET w == StateSet(r.state, op.target, r.item)
                 IN IF w.ok THEN ExecOk(r.payload, w.c) ELSE EvalErr(w.err)
    [] op.op = "ToPayload" ->
         LET r == Evaluate(op.value, payload, st)
         IN IF ~r.ok THEN r
            ELSE ExecOk(ToVec(op.format, r.item), r.state)

\* The fold of dispatch_webhook over the op list, from
\* (Payload{msg.bytes()}, State::new()).  A failing op makes the fold's
\* `expect` panic: the result is then not ok and no later op is executed.
RECURSIVE Fold(_, _)
Fold(opList, acc) ==
  IF opList = <<>> \/ ~acc.ok THEN acc
  ELSE Fold(Tail(opList), Execute(Head(opList), acc.payload, acc.state))

RunProgram(opList, bytes) == Fold(opList, ExecOk(bytes, EmptyMap))

\* event.process of the pipelines the model is run with: no program, and a
\* program whose second op fails with NonMapAccess (set of "a.b" where "a"
\* is an Int).
Programs ==
  { <<>>,
    << SetEnvOp(<<"a">>, ItemExpr(IntValue(1))),
       SetEnvOp(<<"a", "b">>, ItemExpr(IntValue(2))) >> }

\* A pipeline whose event.process reads the state before it writes it:
\* set_env b := get_env a; set_env a := 1.
ReadThenWrite ==
  << SetEnvOp(<<"b">>, GetEnvExpr(<<"a">>)),
     SetEnvOp(<<"a">>, ItemExpr(IntValue(1))) >>

\* bytes() of the message with a given id
Bytes(m) == <<m>>

\* --------------------------------------------------------------- state
VARIABLES
  ops,            \* start_loop: the frozen op list of the pipeline
  pc,             \* start_loop: where the pipeline future is
  msg,            \* start_loop: the message of the current iteration
  payload,        \* dispatch_webhook: payload after the fold
  state,          \* dispatch_webhook: state after the fold
  new_message,    \* start_loop: the task spawned around queue_receiver.recv()
  graceful_stop,  \* start_loop: the future of GracefulSignal::called
  chan,           \* sync.rs: signals waiting in the unbounded drain channel
  triggers,       \* start_loop: the puller tasks
  joined,         \* start_loop: puller tasks the final loop has awaited
  resp,           \* HttpSender::send: the request of each endpoint
  sendRet,        \* dispatch_webhook: what each sender's send returned
  panic,          \* which `expect` made the pipeline future panic
  calls,          \* history: calls of the drain invoker
  produced,       \* history: messages returned by get_one
  ackCount,       \* history: calls of done() per message
  handed,         \* history: messages in the order the queue handed them over
  started,        \* history: messages in the order their iteration started
  called,         \* history: endpoints a request was issued to, per message
  returned,       \* history: senders whose send returned, per message
  drainAt,        \* history: Len(handed) and the running iteration at the first drain call
  mixed,          \* history: the last message answered with a 2xx and a non-2xx status
  v,              \* CombinedGracefulSignalInvoker: the child invokers, in Vec order
  signals,        \* sync.rs: signals waiting in the drain channel of each pipeline
  stops,          \* start_loop of each pipeline: its graceful_stop future / its loop
  combined,       \* CombinedGracefulSignalInvoker::call: children called so far (0: no call running)
  sent,           \* history: calls of each pipeline's own invoker
  st,             \* a State object under set and get
  nsets,          \* history: calls of State::set on st
  setCall,        \* history: the last call of State::set on st
  getCall,        \* history: the last call of State::get on st
  foldOps,        \* dispatch_webhook run alone: the op list
  foldMsg,        \* dispatch_webhook run alone: msg.bytes()
  foldDone,       \* dispatch_webhook run alone: ops the fold has executed
  foldAcc,        \* dispatch_webhook run alone: the accumulator of the fold
  opCall,         \* history: the last call of Op::execute
  evalCall,       \* history: the last call of Expression::evaluate
  sendCall,       \* history: the last request HttpSender::send has built
  wait_time,      \* get_one: the local wait_time, in units of 1/WaitUnit second
  goPc,           \* get_one: where the call is
  pulls,          \* history: pull responses received by the puller
  pullResp,       \* history: the last pull response
  slept           \* history: seconds of the last sleep of the running call (-1: none)

pipeVars == <<ops, pc, msg, payload, state, new_message, graceful_stop, chan,
              triggers, joined, resp, sendRet, panic, calls, produced, ackCount,
              handed, started, called, returned, drainAt, mixed>>

\* the executor with all its pipelines, and a State object taken alone
execVars == <<v, signals, stops, combined, sent>>
unitVars == <<st, nsets, setCall, getCall>>
procVars == <<foldOps, foldMsg, foldDone, foldAcc, opCall, evalCall, sendCall>>
pullVars == <<wait_time, goPc, pulls, pullResp, slept>>
otherVars == <<execVars, unitVars, procVars, pullVars>>

vars == <<ops, pc, msg, payload, state, new_message, graceful_stop, chan,
          triggers, joined, resp, sendRet, panic, calls, produced, ackCount,
          handed, started, called, returned, drainAt, mixed,
          v, signals, stops, combined, sent, st, nsets, setCall, getCall,
          foldOps, foldMsg, foldDone, foldAcc, opCall, evalCall, sendCall,
          wait_time, goPc, pulls, pullResp, slept>>

loopVars == <<pc, msg, payload, state, joined, resp, sendRet, panic>>
histVars == <<ackCount, started, called, returned, mixed>>

\* positions of the pipeline future inside one iteration of the loop
IterPcs == {"program", "dispatch", "done"}
LoopExited == pc \in {"join", "stopped"}
NotFired == [n |-> -1, iter |-> NoMsg]

\* start_loop of one pipeline before its first step
PipelineInit ==
  /\ pc = "start"
  /\ msg = NoMsg
  /\ payload = <<>>
  /\ state = EmptyMap
  /\ new_message = [st |-> "none", msg |-> NoMsg]
  /\ graceful_stop = "unpolled"
  /\ chan = 0
  /\ triggers = [p \in Pullers |-> [st |-> "unspawned", event |-> NoMsg]]
  /\ joined = 0
  /\ resp = [ep \in AllEndpoints |-> "none"]
  /\ sendRet = [s \in Senders |-> "none"]
  /\ panic = "none"
  /\ calls = 0
  /\ produced = 0
  /\ ackCount = [m \in MsgIds |-> 0]
  /\ handed = <<>>
  /\ started = <<>>
  /\ called = [m \in MsgIds |-> {}]
  /\ returned = [m \in MsgIds |-> {}]
  /\ drainAt = NotFired
  /\ mixed = NoMsg

\* Executor::start: one pipeline, one drain channel and one child invoker per
\* event; no signal sent yet, no pipeline future polled yet
Pipelines == 1..NumPipelines
ExecutorStart ==
  /\ signals = [k \in Pipelines |-> 0]
  /\ stops = [k \in Pipelines |-> "unpolled"]
  /\ combined = 0
  /\ sent = [k \in Pipelines |-> 0]

\* State::new(), no call made yet
NoCall == [id |-> <<>>]
StateNew ==
  /\ st = EmptyMap
  /\ nsets = 0
  /\ setCall = NoCall
  /\ getCall = NoCall

\* dispatch_webhook not called: nothing to fold, no call made yet
\* no get_one followed step by step yet
NoPull ==
  /\ wait_time = 0
  /\ goPc = "idle"
  /\ pulls = 0
  /\ pullResp = "none"
  /\ slept = -1

NoFold ==
  /\ foldOps = <<>>
  /\ foldMsg = ""
  /\ foldDone = 0
  /\ foldAcc = ExecOk("", EmptyMap)
  /\ opCall = NoCall
  /\ evalCall = NoCall
  /\ sendCall = NoCall

Init ==
  /\ PipelineInit
  /\ ops \in Programs
  /\ ExecutorStart
  /\ v = [i \in Pipelines |-> i]
  /\ StateNew
  /\ NoFold
  /\ NoPull

\* ------------------------------------------------------- drain signal
\* The receiver of the drain channel lives in the pipeline future (the
\* GracefulSignal argument) and in the task spawned by called().
ReceiverAlive == pc \notin {"stopped", "panicked"} \/ graceful_stop = "blocked"

\* mutant of InvokerCall: the send error of a call made after the receiver is
\* gone is unwrapped instead of logged
InvokerCallUnwrap ==
  /\ calls < MaxCalls
  /\ calls' = calls + 1
  /\ chan' = IF ReceiverAlive THEN chan + 1 ELSE chan
  /\ pc' = IF ReceiverAlive THEN pc ELSE "panicked"
  /\ panic' = IF ReceiverAlive THEN panic ELSE "invoker"
  /\ drainAt' = IF calls = 0
                THEN [n |-> Len(handed), iter |-> IF pc \in IterPcs THEN msg ELSE NoMsg]
                ELSE drainAt
  /\ UNCHANGED <<otherVars, ops, new_message, graceful_stop, triggers, produced, handed>>
  /\ UNCHANGED <<msg, payload, state, joined, resp, sendRet>>
  /\ UNCHANGED histVars

\* SingleGracefulSignalInvoker::call: send () on the unbounded channel; a
\* send error (no receiver left) is logged only.
InvokerCall ==
  /\ calls < MaxCalls
  /\ calls' = calls + 1
  /\ chan' = IF ReceiverAlive THEN chan + 1 ELSE chan
  /\ drainAt' = IF calls = 0
                THEN [n |-> Len(handed), iter |-> IF pc \in IterPcs THEN msg ELSE NoMsg]
                ELSE drainAt
  /\ UNCHANGED <<otherVars, ops, new_message, graceful_stop, triggers, produced, handed>>
  /\ UNCHANGED loopVars
  /\ UNCHANGED histVars

\* GracefulSignal::called, first poll (by a select at which new_message is
\* not ready): spawn the task that blocks in r.recv() and wait for it.
GracefulSignalCalled ==
  /\ pc = "select"
  /\ graceful_stop = "unpolled"
  /\ new_message.st # "ready"
  /\ graceful_stop' = "blocked"
  /\ UNCHANGED <<otherVars, ops, new_message, chan, triggers, calls, produced, handed, drainAt>>
  /\ UNCHANGED loopVars
  /\ UNCHANGED histVars

\* the task spawned by called(): r.recv() returns once a signal is there
GracefulSignalRecv ==
  /\ graceful_stop = "blocked"
  /\ chan > 0
  /\ chan' = chan - 1
  /\ graceful_stop' = "done"
  /\ UNCHANGED <<otherVars, ops, new_message, triggers, calls, produced, handed, drainAt>>
  /\ UNCHANGED loopVars
  /\ UNCHANGED histVars

\* ------------------------------------------------------------- pullers
\* mutant of PullerGetOne: the puller does not await its send task and
\* pulls the next message while the last one still waits for hand-off
PullerGetOneNoAwait(p) ==
  /\ triggers[p].st \in {"get_one", "send"}
  /\ produced < MaxMsgs
  /\ produced' = produced + 1
  /\ triggers' = [triggers EXCEPT ![p] = [st |-> "send", event |-> produced + 1]]
  /\ UNCHANGED <<otherVars, ops, new_message, graceful_stop, chan, calls, handed, drainAt>>
  /\ UNCHANGED loopVars
  /\ UNCHANGED histVars

\* puller task: r.get_one().await returned a message; the task spawns the
\* send task, which blocks in QueuePusher::send on the rendezvous queue.
PullerGetOne(p) ==
  /\ triggers[p].st = "get_one"
  /\ produced < MaxMsgs
  /\ produced' = produced + 1
  /\ triggers' = [triggers EXCEPT ![p] = [st |-> "send", event |-> produced + 1]]
  /\ UNCHANGED <<otherVars, ops, new_message, graceful_stop, chan, calls, handed, drainAt>>
  /\ UNCHANGED loopVars
  /\ UNCHANGED histVars

\* mutant of PullerGetOneErr: the error of one puller ends every puller task
PullerGetOneErrAbort(p) ==
  /\ triggers[p].st = "get_one"
  /\ triggers' = [q \in Pullers |-> [st |-> "dead", event |-> NoMsg]]
  /\ UNCHANGED <<otherVars, ops, new_message, graceful_stop, chan, calls, produced, handed, drainAt>>
  /\ UNCHANGED loopVars
  /\ UNCHANGED histVars

\* puller task: get_one returned an error; `expect` panics, the task ends.
PullerGetOneErr(p) ==
  /\ triggers[p].st = "get_one"
  /\ triggers' = [triggers EXCEPT ![p] = [st |-> "dead", event |-> NoMsg]]
  /\ UNCHANGED <<otherVars, ops, new_message, graceful_stop, chan, calls, produced, handed, drainAt>>
  /\ UNCHANGED loopVars
  /\ UNCHANGED histVars

\* QueuePusher::send meets QueuePuller::recv on the bounded(0) channel: the
\* message passes from the blocked send task of a puller to the blocked recv
\* task; the puller goes on to its next get_one.
QueueSendRecv(p) ==
  /\ triggers[p].st = "send"
  /\ new_message.st = "blocked"
  /\ new_message' = [st |-> "ready", msg |-> triggers[p].event]
  /\ triggers' = [triggers EXCEPT ![p] = [st |-> "get_one", event |-> NoMsg]]
  /\ handed' = Append(handed, triggers[p].event)
  /\ UNCHANGED <<otherVars, ops, graceful_stop, chan, calls, produced, drainAt>>
  /\ UNCHANGED loopVars
  /\ UNCHANGED histVars

\* ------------------------------------------------------- pipeline loop
\* start_loop up to the loop: spawn one puller task per trigger, build the
\* senders, freeze the ops.
StartLoop ==
  /\ pc = "start"
  /\ pc' = "loop"
  /\ triggers' = [p \in Pullers |-> [st |-> "get_one", event |-> NoMsg]]
  /\ UNCHANGED <<otherVars, ops, msg, payload, state, joined, resp, sendRet, panic>>
  /\ UNCHANGED <<new_message, graceful_stop, chan, calls, produced, handed, drainAt>>
  /\ UNCHANGED histVars

\* top of the loop: spawn the task around queue_receiver.recv()
SpawnNewMessage ==
  /\ pc = "loop"
  /\ pc' = "select"
  /\ new_message' = [st |-> "blocked", msg |-> NoMsg]
  /\ UNCHANGED <<otherVars, ops, msg, payload, state, joined, resp, sendRet, panic>>
  /\ UNCHANGED <<graceful_stop, chan, triggers, calls, produced, handed, drainAt>>
  /\ UNCHANGED histVars

\* mutant of SelectGracefulStop: the drain is also awaited around the dispatch
SelectGracefulStopAnywhere ==
  /\ pc \in {"select", "dispatch"}
  /\ graceful_stop = "done"
  /\ pc' = "join"
  /\ UNCHANGED <<otherVars, ops, msg, payload, state, joined, resp, sendRet, panic>>
  /\ UNCHANGED <<new_message, graceful_stop, chan, triggers, calls, produced, handed, drainAt>>
  /\ UNCHANGED histVars

\* mutant of SelectGracefulStop: the loop awaits the message first and looks
\* at the drain only afterwards
SelectGracefulStopAfterRecv ==
  /\ pc = "select"
  /\ new_message.st = "ready"
  /\ graceful_stop = "done"
  /\ pc' = "join"
  /\ UNCHANGED <<otherVars, ops, msg, payload, state, joined, resp, sendRet, panic>>
  /\ UNCHANGED <<new_message, graceful_stop, chan, triggers, calls, produced, handed, drainAt>>
  /\ UNCHANGED histVars

\* select!, branch `_ = &mut graceful_stop`: break.  The JoinHandle of
\* new_message is dropped, the task itself is not cancelled.
SelectGracefulStop ==
  /\ pc = "select"
  /\ graceful_stop = "done"
  /\ pc' = "join"
  /\ UNCHANGED <<otherVars, ops, msg, payload, state, joined, resp, sendRet, panic>>
  /\ UNCHANGED <<new_message, graceful_stop, chan, triggers, calls, produced, handed, drainAt>>
  /\ UNCHANGED histVars

\* select!, branch `msg = new_message`: the iteration for msg starts.
\* select! polls its branches in random order, so this branch may be taken
\* while graceful_stop is ready as well; graceful_stop is polled in the same
\* poll (its task spawned, when it was not) if the order puts it first.
SelectNewMessage ==
  /\ pc = "select"
  /\ new_message.st = "ready"
  /\ pc' = "program"
  /\ msg' = new_message.msg
  /\ new_message' = [st |-> "none", msg |-> NoMsg]
  /\ started' = Append(started, new_message.msg)
  /\ graceful_stop' \in IF graceful_stop = "unpolled" THEN {"unpolled", "blocked"}
                        ELSE {graceful_stop}
  /\ UNCHANGED <<otherVars, ops, payload, state, joined, resp, sendRet, panic>>
  /\ UNCHANGED <<chan, triggers, calls, produced, handed, drainAt>>
  /\ UNCHANGED <<ackCount, called, returned, mixed>>

\* mutant of DispatchWebhook: the fold starts from the state the previous
\* message left
DispatchWebhookKeepState ==
  /\ pc = "program"
  /\ LET r == Fold(ops, ExecOk(Bytes(msg), state))
     IN IF r.ok
        THEN /\ payload' = r.payload
             /\ state' = r.state
             /\ pc' = "dispatch"
             /\ resp' = [ep \in AllEndpoints |-> "pending"]
             /\ called' = [called EXCEPT ![msg] = AllEndpoints]
             /\ panic' = panic
        ELSE /\ pc' = "panicked"
             /\ panic' = "program"
             /\ UNCHANGED <<payload, state, resp, called>>
  /\ UNCHANGED <<otherVars, ops, msg, joined, sendRet>>
  /\ UNCHANGED <<new_message, graceful_stop, chan, triggers, calls, produced, handed, drainAt>>
  /\ UNCHANGED <<ackCount, started, returned, mixed>>

DispatchWebhookStalePayload ==
  /\ pc = "program"
  /\ LET r == RunProgram(ops, payload)
     IN IF r.ok
        THEN /\ payload' = r.payload
             /\ state' = r.state
             /\ pc' = "dispatch"
             /\ resp' = [ep \in AllEndpoints |-> "pending"]
             /\ called' = [called EXCEPT ![msg] = AllEndpoints]
             /\ panic' = panic
        ELSE /\ pc' = "panicked"
             /\ panic' = "program"
             /\ UNCHANGED <<payload, state, resp, called>>
  /\ UNCHANGED <<otherVars, ops, msg, joined, sendRet>>
  /\ UNCHANGED <<new_message, graceful_stop, chan, triggers, calls, produced, handed, drainAt>>
  /\ UNCHANGED <<ackCount, started, returned, mixed>>

\* dispatch_webhook, the fold and the first poll of join_all: every sender
\* builds and starts the request of each of its endpoints.  A failing op
\* panics in `expect("unhandled error on process execution")`.
DispatchWebhook ==
  /\ pc = "program"
  /\ LET r == RunProgram(ops, Bytes(msg))
     IN IF r.ok
        THEN /\ payload' = r.payload
             /\ state' = r.state
             /\ pc' = "dispatch"
             /\ resp' = [ep \in AllEndpoints |-> "pending"]
             /\ called' = [called EXCEPT ![msg] = AllEndpoints]
             /\ panic' = panic
        ELSE /\ pc' = "panicked"
             /\ panic' = "program"
             /\ UNCHANGED <<payload, state, resp, called>>
  /\ UNCHANGED <<otherVars, ops, msg, joined, sendRet>>
  /\ UNCHANGED <<new_message, graceful_stop, chan, triggers, calls, produced, handed, drainAt>>
  /\ UNCHANGED <<ackCount, started, returned, mixed>>

\* client.execute(request) of one endpoint resolves: a response with a 2xx
\* status, a response with another status, or a transport error
HttpResults == {"2xx", "non2xx", "err"}
HttpExecute(ep, r) ==
  /\ pc = "dispatch"
  /\ resp[ep] = "pending"
  /\ resp' = [resp EXCEPT ![ep] = r]
  /\ UNCHANGED <<otherVars, ops, pc, msg, payload, state, joined, sendRet, panic>>
  /\ UNCHANGED <<new_message, graceful_stop, chan, triggers, calls, produced, handed, drainAt>>
  /\ UNCHANGED histVars

\* mutant of HttpSenderSend: a non-2xx status is treated like a transport error
HttpSenderSendStrict(s) ==
  /\ pc = "dispatch"
  /\ sendRet[s] = "none"
  /\ \A ep \in EndpointsOf(s) : resp[ep] \in {"2xx", "non2xx", "err"}
  /\ IF \E ep \in EndpointsOf(s) : resp[ep] \in {"err", "non2xx"}
     THEN /\ pc' = "panicked"
          /\ panic' = "transport"
          /\ UNCHANGED <<sendRet, returned>>
     ELSE /\ sendRet' = [sendRet EXCEPT ![s] = "Ok"]
          /\ returned' = [returned EXCEPT ![msg] = @ \cup {s}]
          /\ UNCHANGED <<pc, panic>>
  /\ UNCHANGED <<otherVars, ops, msg, payload, state, joined, resp>>
  /\ UNCHANGED <<new_message, graceful_stop, chan, triggers, calls, produced, handed, drainAt>>
  /\ UNCHANGED <<ackCount, started, called, mixed>>

\* HttpSender::send after its join_all: `expect("http request failed")`
\* panics on a transport error, a non-2xx status is logged, then Ok(()).
HttpSenderSend(s) ==
  /\ pc = "dispatch"
  /\ sendRet[s] = "none"
  /\ \A ep \in EndpointsOf(s) : resp[ep] \in HttpResults
  /\ IF \E ep \in EndpointsOf(s) : resp[ep] = "err"
     THEN /\ pc' = "panicked"
          /\ panic' = "transport"
          /\ UNCHANGED <<sendRet, returned>>
     ELSE /\ sendRet' = [sendRet EXCEPT ![s] = "Ok"]
          /\ returned' = [returned EXCEPT ![msg] = @ \cup {s}]
          /\ UNCHANGED <<pc, panic>>
  /\ UNCHANGED <<otherVars, ops, msg, payload, state, joined, resp>>
  /\ UNCHANGED <<new_message, graceful_stop, chan, triggers, calls, produced, handed, drainAt>>
  /\ UNCHANGED <<ackCount, started, called, mixed>>

\* dispatch_webhook after join_all over the senders: every result is Ok
\* (sender::Error has no variant), dispatch_webhook returns Ok(()).
Mixed ==
  /\ \E ep \in AllEndpoints : resp[ep] = "non2xx"
  /\ \E ep \in AllEndpoints : resp[ep] = "2xx"
  /\ \A ep \in AllEndpoints : resp[ep] \in {"2xx", "non2xx"}
DispatchWebhookJoin ==
  /\ pc = "dispatch"
  /\ \A s \in Senders : sendRet[s] = "Ok"
  /\ pc' = "done"
  /\ mixed' = IF Mixed THEN msg ELSE mixed
  /\ UNCHANGED <<otherVars, ops, msg, payload, state, joined, resp, sendRet, panic>>
  /\ UNCHANGED <<new_message, graceful_stop, chan, triggers, calls, produced, handed, drainAt>>
  /\ UNCHANGED <<ackCount, started, called, returned>>

\* mutant of MsgDone: done() is called while the dispatch is still awaited
MsgDoneEarly ==
  /\ pc \in {"dispatch", "done"}
  /\ ackCount' = [ackCount EXCEPT ![msg] = @ + 1]
  /\ pc' = "loop"
  /\ resp' = [ep \in AllEndpoints |-> "none"]
  /\ sendRet' = [s \in Senders |-> "none"]
  /\ UNCHANGED <<otherVars, ops, msg, payload, state, joined, panic>>
  /\ UNCHANGED <<new_message, graceful_stop, chan, triggers, calls, produced, handed, drainAt>>
  /\ UNCHANGED <<started, called, returned, mixed>>

\* mutant of MsgDone: the ack is left to a detached task, the loop goes on
MsgDoneDetached ==
  /\ pc = "done"
  /\ pc' = "loop"
  /\ resp' = [ep \in AllEndpoints |-> "none"]
  /\ sendRet' = [s \in Senders |-> "none"]
  /\ UNCHANGED <<otherVars, ops, msg, payload, state, joined, panic>>
  /\ UNCHANGED <<new_message, graceful_stop, chan, triggers, calls, produced, handed, drainAt>>
  /\ UNCHANGED histVars

\* msg.done().await: the ack request of the message; the iteration ends, its
\* request and result futures are dropped; back to the loop top
MsgDone ==
  /\ pc = "done"
  /\ ackCount' = [ackCount EXCEPT ![msg] = @ + 1]
  /\ pc' = "loop"
  /\ resp' = [ep \in AllEndpoints |-> "none"]
  /\ sendRet' = [s \in Senders |-> "none"]
  /\ UNCHANGED <<otherVars, ops, msg, payload, state, joined, panic>>
  /\ UNCHANGED <<new_message, graceful_stop, chan, triggers, calls, produced, handed, drainAt>>
  /\ UNCHANGED <<started, called, returned, mixed>>

\* after the loop: `trigger.await` for the puller tasks, in order; a puller
\* task ends only by panicking (its loop has no exit)
JoinTrigger ==
  /\ pc = "join"
  /\ joined < NumPullers
  /\ triggers[joined + 1].st = "dead"
  /\ joined' = joined + 1
  /\ UNCHANGED <<otherVars, ops, pc, msg, payload, state, resp, sendRet, panic>>
  /\ UNCHANGED <<new_message, graceful_stop, chan, triggers, calls, produced, handed, drainAt>>
  /\ UNCHANGED histVars

\* every puller task joined: "pipeline stopped", the completion resolves
PipelineStopped ==
  /\ pc = "join"
  /\ joined = NumPullers
  /\ pc' = "stopped"
  /\ UNCHANGED <<otherVars, ops, msg, payload, state, joined, resp, sendRet, panic>>
  /\ UNCHANGED <<new_message, graceful_stop, chan, triggers, calls, produced, handed, drainAt>>
  /\ UNCHANGED histVars

Next ==
  \/ InvokerCall
  \/ GracefulSignalCalled
  \/ GracefulSignalRecv
  \/ \E p \in Pullers : PullerGetOne(p)
  \/ \E p \in Pullers : PullerGetOneErr(p)
  \/ \E p \in Pullers : QueueSendRecv(p)
  \/ StartLoop
  \/ SpawnNewMessage
  \/ SelectGracefulStop
  \/ SelectNewMessage
  \/ DispatchWebhook
  \/ \E ep \in AllEndpoints, r \in HttpResults : HttpExecute(ep, r)
  \/ \E s \in Senders : HttpSenderSend(s)
  \/ DispatchWebhookJoin
  \/ MsgDone
  \/ JoinTrigger
  \/ PipelineStopped

Spec == Init /\ [][Next]_vars

\* The tasks of the tokio runtime are scheduled fairly: the pipeline future,
\* the task of called(), the send and recv tasks of the queue, and the HTTP
\* requests make progress when they can.  Nothing forces a source to return
\* from get_one or the operator to call the drain invoker.
LoopStep ==
  \/ StartLoop
  \/ SpawnNewMessage
  \/ GracefulSignalCalled
  \/ SelectGracefulStop
  \/ SelectNewMessage
  \/ DispatchWebhook
  \/ \E s \in Senders : HttpSenderSend(s)
  \/ DispatchWebhookJoin
  \/ MsgDone
  \/ JoinTrigger
  \/ PipelineStopped

Fairness ==
  /\ WF_vars(LoopStep)
  /\ WF_vars(GracefulSignalRecv)
  /\ WF_vars(\E p \in Pullers : QueueSendRecv(p))
  /\ WF_vars(\E ep \in AllEndpoints, r \in HttpResults : HttpExecute(ep, r))

FairSpec == Init /\ [][Next]_vars /\ Fairness

\* The runs in which no source ever returns a message: get_one either stays
\* pending or fails, so nothing reaches the queue and no iteration starts.
IdleNext ==
  \/ InvokerCall
  \/ GracefulSignalCalled
  \/ GracefulSignalRecv
  \/ \E p \in Pullers : PullerGetOneErr(p)
  \/ StartLoop
  \/ SpawnNewMessage
  \/ SelectGracefulStop
  \/ JoinTrigger
  \/ PipelineStopped

IdleFairSpec == Init /\ [][IdleNext]_vars /\ Fairness

\* The runs in which the drain invoker is never called: no signal is ever in
\* the drain channel, the loop never takes the drain branch.
NoDrainNext ==
  \/ GracefulSignalCalled
  \/ \E p \in Pullers : PullerGetOne(p)
  \/ \E p \in Pullers : PullerGetOneErr(p)
  \/ \E p \in Pullers : QueueSendRecv(p)
  \/ StartLoop
  \/ SpawnNewMessage
  \/ SelectNewMessage
  \/ DispatchWebhook
  \/ \E ep \in AllEndpoints, r \in HttpResults : HttpExecute(ep, r)
  \/ \E s \in Senders : HttpSenderSend(s)
  \/ DispatchWebhookJoin
  \/ MsgDone

NoDrainFairSpec == Init /\ [][NoDrainNext]_vars /\ Fairness

\* the pipeline started with ReadThenWrite as its event.process
ReadThenWriteInit ==
  /\ PipelineInit
  /\ ops = ReadThenWrite
  /\ ExecutorStart
  /\ v = [i \in Pipelines |-> i]
  /\ StateNew
  /\ NoFold
  /\ NoPull

ReadThenWriteSpec == ReadThenWriteInit /\ [][Next]_vars

\* ------------------------------------------------------------ executor
\* The executor with its pipelines, each pipeline reduced to its drain: its
\* drain channel (signals), and in stops the graceful_stop future of its
\* loop ("unpolled", "blocked", "done"), then the loop left ("join") and the
\* pipeline future completed ("stopped", the receiver of the channel dropped).

\* Executor::start keeps the children in the order of the events; the
\* pipeline numbers are labels, so every order of the children is a start.
Orders == {o \in [Pipelines -> Pipelines] : \A i, j \in Pipelines : o[i] = o[j] => i = j}
ExecutorInit ==
  /\ PipelineInit
  /\ ops \in Programs
  /\ ExecutorStart
  /\ v \in Orders
  /\ StateNew
  /\ NoFold
  /\ NoPull

\* SingleGracefulSignalInvoker::call on the invoker of pipeline k: the
\* content of its channel afterwards (a send error is logged only)
ChildCall(k) ==
  [signals EXCEPT ![k] = IF stops[k] = "stopped" THEN @ ELSE @ + 1]

\* mutant of CombinedCall: only the first child is called
CombinedCallFirstOnly ==
  /\ combined < NumPipelines
  /\ signals' = ChildCall(v[1])
  /\ combined' = NumPipelines
  /\ UNCHANGED <<v, stops, sent>>
  /\ UNCHANGED <<pipeVars, unitVars, procVars, pullVars>>

\* CombinedGracefulSignalInvoker::call, one step of its for_each: call() of
\* the next child in Vec order.  The call runs on the signal handler's
\* task while the pipelines go on.
CombinedCall ==
  /\ combined < NumPipelines
  /\ signals' = ChildCall(v[combined + 1])
  /\ combined' = combined + 1
  /\ UNCHANGED <<v, stops, sent>>
  /\ UNCHANGED <<pipeVars, unitVars, procVars, pullVars>>

\* call() on the invoker Pipeline::start returned for pipeline k
SingleCall(k) ==
  /\ sent[k] < MaxCalls
  /\ signals' = ChildCall(k)
  /\ sent' = [sent EXCEPT ![k] = @ + 1]
  /\ UNCHANGED <<v, stops, combined>>
  /\ UNCHANGED <<pipeVars, unitVars, procVars, pullVars>>

\* pipeline k: first poll of GracefulSignal::called by its select
PipelineCalled(k) ==
  /\ stops[k] = "unpolled"
  /\ stops' = [stops EXCEPT ![k] = "blocked"]
  /\ UNCHANGED <<v, signals, combined, sent>>
  /\ UNCHANGED <<pipeVars, unitVars, procVars, pullVars>>

\* pipeline k: r.recv() of the task spawned by called() returns
PipelineRecv(k) ==
  /\ stops[k] = "blocked"
  /\ signals[k] > 0
  /\ signals' = [signals EXCEPT ![k] = @ - 1]
  /\ stops' = [stops EXCEPT ![k] = "done"]
  /\ UNCHANGED <<v, combined, sent>>
  /\ UNCHANGED <<pipeVars, unitVars, procVars, pullVars>>

\* pipeline k: its select takes the graceful_stop branch and breaks
PipelineBreak(k) ==
  /\ stops[k] = "done"
  /\ stops' = [stops EXCEPT ![k] = "join"]
  /\ UNCHANGED <<v, signals, combined, sent>>
  /\ UNCHANGED <<pipeVars, unitVars, procVars, pullVars>>

\* pipeline k: its puller tasks are joined (they all ended), start_loop
\* returns and drops the GracefulSignal
PipelineJoined(k) ==
  /\ stops[k] = "join"
  /\ stops' = [stops EXCEPT ![k] = "stopped"]
  /\ UNCHANGED <<v, signals, combined, sent>>
  /\ UNCHANGED <<pipeVars, unitVars, procVars, pullVars>>

ExecutorNext ==
  \/ CombinedCall
  \/ \E k \in Pipelines : SingleCall(k)
  \/ \E k \in Pipelines : PipelineCalled(k)
  \/ \E k \in Pipelines : PipelineRecv(k)
  \/ \E k \in Pipelines : PipelineBreak(k)
  \/ \E k \in Pipelines : PipelineJoined(k)

ExecutorSpec == ExecutorInit /\ [][ExecutorNext]_vars

\* ----------------------------------------------------- State, taken alone
\* One State object, from State::new(), under calls of set and get.  The
\* identifiers reach top-level keys, nested map keys and Vec indices (in
\* range, out of range, not a number), as final and as intermediate segment;
\* the items are the three scalars and Vecs holding a scalar, a Map, a Vec.
Ids ==
  { <<"a">>, <<"a", "b">>, <<"a", "0">>, <<"a", "1">>,
    <<"a", "0", "b">>, <<"a", "1", "b">>, <<"a", "b", "c">>, <<"a", "0", "1">> }
Items ==
  { NoneValue, IntValue(1), StringValue("s"),
    VecItem(<<IntValue(2)>>), VecItem(<<MapItem(EmptyMap)>>),
    VecItem(<<VecItem(<<IntValue(2)>>)>>) }

StateInit ==
  /\ PipelineInit
  /\ ops = <<>>
  /\ ExecutorStart
  /\ v = [i \in Pipelines |-> i]
  /\ StateNew
  /\ NoFold
  /\ NoPull

\* state.set(id, value): st is mutated in place, the Result is recorded
StateSetCall(id, value) ==
  /\ nsets < MaxSets
  /\ nsets' = nsets + 1
  /\ LET r == StateSet(st, id, value)
     IN /\ st' = r.c
        /\ setCall' = [id |-> id, value |-> value, before |-> st, ok |-> r.ok,
                       ret |-> IF r.ok THEN r.old ELSE r.err]
  /\ getCall' = NoCall
  /\ UNCHANGED <<pipeVars, execVars, procVars, pullVars>>

\* state.get(&id), the returned Option is recorded
StateGetCall(id) ==
  /\ getCall' = [id |-> id, ret |-> StateGet(st, id)]
  /\ UNCHANGED <<st, nsets, setCall>>
  /\ UNCHANGED <<pipeVars, execVars, procVars, pullVars>>

StateNext ==
  \/ \E id \in Ids, value \in Items : StateSetCall(id, value)
  \/ \E id \in Ids : StateGetCall(id)

StateSpec == StateInit /\ [][StateNext]_vars

\* ------------------------------------------- dispatch_webhook, taken alone
\* One call of dispatch_webhook followed step by step: the fold executes the
\* ops of the list one closure call at a time, then a sender builds its
\* request against the state the fold returned.  Expressions are also
\* evaluated on the (payload, state) the fold has reached.

\* sender::EnvString
EnvStringFromEnv(key) == [from_env |-> key, lit |-> FALSE]
EnvStringString(s) == [s |-> s, lit |-> TRUE]

\* EnvString::to_string
EnvStringToString(es, env) ==
  IF es.lit THEN Some(es.s)
  ELSE LET val == StateGet(env, es.from_env)
       IN IF val.some /\ val.v.t = "String" THEN Some(val.v.s) ELSE None

\* reqwest: client.post(&url) parses the URL and build() returns the parse
\* error; of the strings of this model the absolute URLs parse, "missing
\* url" (a relative reference without a base) does not.
UrlParses(url) == url \in {"http://t/", "http://lit/"}

\* the expressions and ops the fold is run with
SetThenGet ==
  AsMapExpr(<< [key |-> "x", expr |-> SetEnvExpr(<<"a">>, ItemExpr(IntValue(2)))],
               [key |-> "y", expr |-> GetEnvExpr(<<"a">>)] >>)
GetThenSet ==
  AsMapExpr(<< [key |-> "y", expr |-> GetEnvExpr(<<"a">>)],
               [key |-> "x", expr |-> SetEnvExpr(<<"a">>, ItemExpr(IntValue(2)))] >>)
Exprs ==
  { ItemExpr(IntValue(1)),
    GetEnvExpr(<<"a">>),
    SetEnvExpr(<<"u">>, ItemExpr(StringValue("http://t/"))),
    FromPayloadExpr("json"),
    FromPayloadExpr("yaml"),
    FromJsonExpr("{}"),
    AsMapExpr(<< [key |-> "k", expr |-> ItemExpr(IntValue(1))] >>),
    SetThenGet,
    GetThenSet }
OpSet ==
  { SetEnvOp(<<"a">>, ItemExpr(IntValue(1))),
    SetEnvOp(<<"b">>, GetEnvExpr(<<"a">>)),
    SetEnvOp(<<"a", "b">>, ItemExpr(IntValue(2))),
    SetEnvOp(<<"v">>, ItemExpr(VecItem(<<IntValue(2)>>))),
    SetEnvOp(<<"v", "1">>, ItemExpr(IntValue(1))),
    SetEnvOp(<<"p">>, FromPayloadExpr("json")),
    SetEnvOp(<<"j">>, FromJsonExpr("{}")),
    SetEnvOp(<<"m">>, SetThenGet),
    ToPayloadOp("json", GetEnvExpr(<<"a">>)),
    ToPayloadOp("json", SetEnvExpr(<<"u">>, ItemExpr(StringValue("http://t/")))),
    ToPayloadOp("json", AsMapExpr(<< [key |-> "k", expr |-> ItemExpr(IntValue(1))] >>)),
    ToPayloadOp("json", AsMapExpr(<< [key |-> "k",
                                      expr |-> SetEnvExpr(<<"a">>, ItemExpr(IntValue(2)))] >>)),
    ToPayloadOp("yaml", ItemExpr(IntValue(1))) }
OpLists == UNION {[1..n -> OpSet] : n \in 0..MaxOps}
Payloads == {"1", "oops"}
UrlConfigs ==
  { EnvStringString("http://lit/"), EnvStringFromEnv(<<"u">>),
    EnvStringFromEnv(<<"a">>), EnvStringFromEnv(<<"zz">>) }

DispatchInit ==
  /\ PipelineInit
  /\ ops = <<>>
  /\ ExecutorStart
  /\ v = [i \in Pipelines |-> i]
  /\ StateNew
  /\ foldOps \in OpLists
  /\ foldMsg \in Payloads
  /\ foldDone = 0
  /\ foldAcc = ExecOk(foldMsg, EmptyMap)
  /\ opCall = NoCall
  /\ evalCall = NoCall
  /\ sendCall = NoCall
  /\ NoPull

FoldStepFreshState ==
  /\ foldAcc.ok
  /\ foldDone < Len(foldOps)
  /\ LET op == foldOps[foldDone + 1]
         r == Execute(op, foldAcc.payload, EmptyMap)
     IN /\ foldAcc' = r
        /\ opCall' = [id |-> foldDone + 1, op |-> op, payload |-> foldAcc.payload,
                      state |-> EmptyMap, ret |-> r]
  /\ foldDone' = foldDone + 1
  /\ evalCall' = NoCall
  /\ sendCall' = NoCall
  /\ UNCHANGED <<foldOps, foldMsg>>
  /\ UNCHANGED <<pipeVars, execVars, unitVars, pullVars>>

\* one call of the closure of the fold: op.execute(payload, state) with the
\* accumulator; `expect` panics when the op failed, which ends the fold
FoldStep ==
  /\ foldAcc.ok
  /\ foldDone < Len(foldOps)
  /\ LET op == foldOps[foldDone + 1]
         r == Execute(op, foldAcc.payload, foldAcc.state)
     IN /\ foldAcc' = r
        /\ opCall' = [id |-> foldDone + 1, op |-> op, payload |-> foldAcc.payload,
                      state |-> foldAcc.state, ret |-> r]
  /\ foldDone' = foldDone + 1
  /\ evalCall' = NoCall
  /\ sendCall' = NoCall
  /\ UNCHANGED <<foldOps, foldMsg>>
  /\ UNCHANGED <<pipeVars, execVars, unitVars, pullVars>>

\* expr.evaluate(payload, state) on what the fold has reached
EvaluateCall(expr) ==
  /\ foldAcc.ok
  /\ evalCall' = [id |-> foldDone, expr |-> expr, payload |-> foldAcc.payload,
                  state |-> foldAcc.state,
                  ret |-> Evaluate(expr, foldAcc.payload, foldAcc.state)]
  /\ sendCall' = NoCall
  /\ UNCHANGED <<foldOps, foldMsg, foldDone, foldAcc, opCall>>
  /\ UNCHANGED <<pipeVars, execVars, unitVars, pullVars>>

\* HttpSender::send, the closure of one Post entry: resolve the URL, build
\* the request (`expect` panics when build failed), start it
HttpSenderPost(es) ==
  /\ foldAcc.ok
  /\ foldDone = Len(foldOps)
  /\ LET o == EnvStringToString(es, foldAcc.state)
         url == IF o.some THEN o.v ELSE "missing url"
     IN sendCall' = [id |-> foldDone, config |-> es, url |-> url,
                     body |-> foldAcc.payload,
                     executed |-> UrlParses(url)]
  /\ evalCall' = NoCall
  /\ UNCHANGED <<foldOps, foldMsg, foldDone, foldAcc, opCall>>
  /\ UNCHANGED <<pipeVars, execVars, unitVars, pullVars>>

DispatchNext ==
  \/ FoldStep
  \/ \E expr \in Exprs : EvaluateCall(expr)
  \/ \E es \in UrlConfigs : HttpSenderPost(es)

DispatchSpec == DispatchInit /\ [][DispatchNext]_vars

\* ------------------------------------------------ get_one, taken alone
\* The calls of Receiver::get_one by one puller task.  wait_time is an f64
\* that only takes the values 1.25^n (n <= 11), 10.0 and 12.5; these and
\* their products by 1.25 are exact in f64, and they are kept here as
\* integers in units of 1/WaitUnit.
WaitUnit == 4194304
WaitCap == 10 * WaitUnit

\* resp.received_messages of a pull, or the error of the pull:
\* None, Some(vec![]), Some(vec![message]), Err
PullResponses == {"None", "Empty", "Message", "Err"}

GetOneInit ==
  /\ PipelineInit
  /\ ops = <<>>
  /\ ExecutorStart
  /\ v = [i \in Pipelines |-> i]
  /\ StateNew
  /\ NoFold
  /\ NoPull

\* the puller task calls get_one: `let mut wait_time: f64 = 1.0`
GetOneCall ==
  /\ goPc \in {"idle", "returned"}
  /\ pulls < MaxPulls
  /\ wait_time' = WaitUnit
  /\ goPc' = "pull"
  /\ slept' = -1
  /\ UNCHANGED <<pulls, pullResp>>
  /\ UNCHANGED <<pipeVars, execVars, unitVars, procVars>>

\* subscriptions_pull(..).doit().await and the match on received_messages
SubscriptionsPull(r) ==
  /\ goPc = "pull"
  /\ pulls < MaxPulls
  /\ pulls' = pulls + 1
  /\ pullResp' = r
  /\ CASE r = "Err" -> goPc' = "failed" /\ UNCHANGED slept
       [] r = "None" -> goPc' = "sleep" /\ slept' = wait_time \div WaitUnit
       [] r = "Empty" -> goPc' = "pull" /\ UNCHANGED slept
       [] r = "Message" -> goPc' = "returned" /\ UNCHANGED slept
  /\ UNCHANGED wait_time
  /\ UNCHANGED <<pipeVars, execVars, unitVars, procVars>>

\* the sleep is over: wait_time = wait_time * 1.25, capped at 10.0
SleepDone ==
  /\ goPc = "sleep"
  /\ wait_time' = IF (wait_time * 5) \div 4 > WaitCap THEN WaitCap
                  ELSE (wait_time * 5) \div 4
  /\ goPc' = "pull"
  /\ UNCHANGED <<pulls, pullResp, slept>>
  /\ UNCHANGED <<pipeVars, execVars, unitVars, procVars>>

GetOneNext ==
  \/ GetOneCall
  \/ \E r \in PullResponses : SubscriptionsPull(r)
  \/ SleepDone

GetOneSpec == GetOneInit /\ [][GetOneNext]_vars

\* ================================================================ claims
Range(seq) == {seq[i] : i \in 1..Len(seq)}
IsPrefix(a, b) == Len(a) <= Len(b) /\ \A i \in 1..Len(a) : a[i] = b[i]
\* the iteration of message m has started and is over (the loop went on)
IterationOver(m) == m \in Range(started) /\ ~(m = msg /\ pc \in IterPcs \cup {"panicked"})

C2_DequeuedBeforeDrainAcked ==
  LoopExited => \A i \in 1..drainAt.n : ackCount[handed[i]] = 1

\* C3 (as claimed): unless the pipeline future panics, a call of the drain
\* invoker leads to the completion of the pipeline future.
C3_DrainCompletes ==
  [](pc # "panicked") => ((calls > 0) ~> (pc = "stopped"))

\* C4: when the first drain call came while the iteration of a message was
\* running, the loop exits only after send has returned for every sender
\* and the message has been acked.
C4_InFlightCompletes ==
  (drainAt.iter # NoMsg /\ LoopExited) =>
    /\ ackCount[drainAt.iter] = 1
    /\ returned[drainAt.iter] = Senders
    /\ called[drainAt.iter] = AllEndpoints

C4_Witness ==
  drainAt.iter # NoMsg /\ LoopExited /\ ackCount[drainAt.iter] = 1

\* C5: in the runs in which no source ever returns a message (IdleFairSpec),
\* a call of the drain invoker leads to the loop taking the drain branch and
\* exiting, the recv task still blocked on the empty queue.
C5_DrainPreemptsEmptyQueue ==
  (calls > 0) ~> (LoopExited /\ produced = 0 /\ new_message.st = "blocked")

C5_Witness ==
  produced = 0 /\ calls > 0 /\ LoopExited /\ new_message.st = "blocked"

\* C6 (as claimed): at a select where the drain branch is ready, the loop
\* does not start the iteration of a message.
C6_DrainHasPriority ==
  [][(pc = "select" /\ graceful_stop = "done") => pc' # "program"]_vars

\* C7: iterations start in the order the queue handed the messages over (the
\* order of the rendezvous between a blocked send and the recv task), one at
\* a time: when a message starts, every message started before is acked.
C7_QueueOrder ==
  /\ IsPrefix(started, handed)
  /\ \A i, j \in 1..Len(started) : i < j => ackCount[started[i]] = 1
  /\ \A i, j \in 1..Len(handed) : i < j => handed[i] # handed[j]

C7_Witness ==
  /\ started = <<2, 1>>
  /\ ackCount[2] = 1
  /\ pc = "dispatch"

\* C8 (as claimed): a message whose program fails is not dispatched, the
\* loop does not abort, and the message is acked when its iteration is over.
C8_ProgramFailureHandled ==
  \A m \in Range(started) :
    (~RunProgram(ops, Bytes(m)).ok /\ ~(m = msg /\ pc = "program")) =>
      /\ called[m] = {}
      /\ pc # "panicked"
      /\ (m # msg \/ pc \notin IterPcs) => ackCount[m] = 1

\* C9 (as claimed): a transport error of an endpoint does not abort the
\* pipeline: once every request of the message has resolved, the loop is
\* still running and the sender returns Ok.
C9_TransportFailureHandled ==
  (\E ep \in AllEndpoints : resp[ep] = "err") => pc # "panicked"

\* C10: when the endpoints of a message answered with one non-2xx and one
\* 2xx status, nothing panics, every endpoint was called, every sender
\* returned Ok, and the message is acked before the loop goes on.
C10_Non2xxHandled ==
  /\ Mixed => pc \in {"dispatch", "done"}
  /\ (Mixed /\ pc = "done") => (\A s \in Senders : sendRet[s] = "Ok")
  /\ mixed # NoMsg =>
       /\ called[mixed] = AllEndpoints
       /\ returned[mixed] = Senders
       /\ ~(mixed = msg /\ pc = "done") => ackCount[mixed] = 1

C10_Witness ==
  /\ mixed # NoMsg
  /\ msg # mixed
  /\ pc = "dispatch"
  /\ ackCount[mixed] = 1

C12_DrainIdempotent ==
  /\ [][(calls >= 1 /\ calls' = calls + 1) =>
          /\ UNCHANGED <<loopVars, histVars, new_message, graceful_stop, triggers,
                         produced, handed, drainAt>>
          /\ chan' \in {chan, chan + 1}
          /\ (graceful_stop' = "blocked" /\ chan' > 0)
               => (graceful_stop = "blocked" /\ chan > 0)]_vars
  /\ [][chan' < chan => (graceful_stop = "blocked" /\ graceful_stop' = "done")]_vars
  /\ [][graceful_stop = "done" => graceful_stop' = "done"]_vars

C12_Witness ==
  /\ calls = 2
  /\ chan = 1
  /\ pc = "stopped"

\* C13: once the call of the combined invoker has returned, the drain signal
\* of every pipeline has been sent, whatever the order of the children; a
\* pipeline receives a drain signal only when its own invoker was called
\* (directly or as a child of the combined invoker), and a call of the
\* invoker of one pipeline touches the channel of that pipeline only.
CalledByCombined == {v[i] : i \in 1..combined}
Stopping(k) == stops[k] \in {"done", "join", "stopped"}
C13_CombinedFiresAll ==
  /\ [](\A k \in Pipelines :
         /\ combined = NumPipelines => (signals[k] >= 1 \/ Stopping(k))
         /\ Stopping(k) => (sent[k] >= 1 \/ k \in CalledByCombined)
         /\ (sent[k] = 0 /\ k \notin CalledByCombined) => signals[k] = 0)
  /\ [][\A k \in Pipelines :
          sent'[k] = sent[k] + 1 =>
            /\ \A j \in Pipelines \ {k} : signals'[j] = signals[j]
            /\ UNCHANGED <<stops, combined>>]_vars

C13_Witness ==
  /\ v[1] = NumPipelines
  /\ combined = NumPipelines
  /\ \A k \in Pipelines : sent[k] = 0 /\ stops[k] = "join"

\* C14: the state handed to the senders of a message is the result of the
\* program run on the empty State with the bytes of that message: what the
\* program of an earlier message wrote (a = 1) is not read by the program of
\* a later one (its b := get_env a yields None).
C14_FreshState ==
  pc \in {"dispatch", "done"} =>
    /\ state = RunProgram(ops, Bytes(msg)).state
    /\ StateGet(state, <<"b">>) = Some(NoneValue)
    /\ StateGet(state, <<"a">>) = Some(IntValue(1))

C14_Witness ==
  /\ Len(started) = 2
  /\ ackCount[started[1]] = 1
  /\ pc = "dispatch"
  /\ StateGet(state, <<"b">>) = Some(NoneValue)

\* a set was called on st / a get was called on st after the last set
SetCalled == setCall # NoCall
GetCalled == getCall # NoCall
\* the first k pieces of an identifier
Prefix(id, k) == SubSeq(id, 1, k)

\* C15 (as claimed): after a set that returned Ok, get of the same
\* identifier returns Some of the item that was set.
C15_SetGetRoundTrip ==
  (SetCalled /\ setCall.ok) =>
    /\ StateGet(st, setCall.id) = Some(setCall.value)
    /\ (GetCalled /\ getCall.id = setCall.id) => getCall.ret = Some(setCall.value)

\* the identifier leads, in state s, to a Vec that its next piece does not
\* index: the piece is not a number, or no element has that index
BadVecIndex(s, id) ==
  \E k \in 1..(Len(id) - 1) :
    LET parent == StateGet(s, Prefix(id, k))
        p == FromStr(id[k + 1])
    IN /\ parent.some
       /\ parent.v.t = "Array"
       /\ (~p.ok \/ p.idx >= Len(parent.v.v))

\* C16 (as claimed): a set whose identifier indexes an existing Vec with a
\* piece that is not a number or is out of range returns an error,
\* IndexOutOfBound or InvalidIndex, at an intermediate and at the final piece.
C16_BadVecIndexFails ==
  (SetCalled /\ BadVecIndex(setCall.before, setCall.id)) =>
    /\ ~setCall.ok
    /\ setCall.ret.e \in {"IndexOutOfBound", "InvalidIndex"}

\* C17: a set that returns Ok returns what get of the same identifier
\* returned before the call: Some(old value) when the path was bound (a
\* top-level key, a nested map path, an existing Vec index), None when it
\* was absent; and a bound path is rebound to the new value.
C17_SetReplace ==
  (SetCalled /\ setCall.ok) =>
    LET old == StateGet(setCall.before, setCall.id)
    IN /\ setCall.ret = old
       /\ old.some => StateGet(st, setCall.id) = Some(setCall.value)

C17_Witness ==
  /\ nsets = 2
  /\ setCall.id = <<"a", "b">>
  /\ setCall.ok
  /\ setCall.ret = Some(IntValue(1))
  /\ setCall.value = StringValue("s")
  /\ StateGet(st, <<"a", "b">>) = Some(StringValue("s"))

Scalars == {"None", "Int", "String"}
\* piece k of the identifier is absent in state s: what the pieces before it
\* lead to is nothing, a scalar, a Map without that key, or a Vec that the
\* piece does not index
MissingAt(s, id, k) ==
  LET parent == IF k = 1 THEN Some(MapItem(s)) ELSE StateGet(s, Prefix(id, k - 1))
      p == FromStr(id[k])
  IN \/ ~parent.some
     \/ parent.v.t \in Scalars
     \/ parent.v.t = "Map" /\ id[k] \notin DOMAIN parent.v.m
     \/ parent.v.t = "Array" /\ (~p.ok \/ p.idx >= Len(parent.v.v))

\* C18: get returns an Option, and None whenever a piece of the identifier
\* is absent: a missing key, a missing nested key, an index out of range or
\* not a number, a path continuing below a scalar.
C18_GetTolerant ==
  GetCalled =>
    /\ getCall.ret = None \/ getCall.ret = Some(getCall.ret.v)
    /\ (\E k \in 1..Len(getCall.id) : MissingAt(st, getCall.id, k)) => getCall.ret = None

C18_Witness ==
  /\ getCall.id = <<"a", "b", "c">>
  /\ StateGet(st, <<"a", "b">>) = Some(IntValue(1))
  /\ getCall.ret = None

\* C19: a set whose identifier passes through a scalar (None, Int, String)
\* before its final piece returns NonMapAccess with the piece that names the
\* scalar and the scalar's type name, in a Map and in a Vec alike; get of
\* the same identifier returns None, before and after that set.
C19_SetThroughScalar ==
  SetCalled =>
    \A k \in 1..(Len(setCall.id) - 1) :
      LET at == StateGet(setCall.before, Prefix(setCall.id, k))
      IN (at.some /\ at.v.t \in Scalars) =>
           /\ ~setCall.ok
           /\ setCall.ret = NonMapAccess(setCall.id[k], at.v.t)
           /\ StateGet(setCall.before, setCall.id) = None
           /\ StateGet(st, setCall.id) = None
           /\ (GetCalled /\ getCall.id = setCall.id) => getCall.ret = None

C19_Witness ==
  /\ setCall.id = <<"a", "b">>
  /\ ~setCall.ok
  /\ setCall.ret = NonMapAccess("a", "String")
  /\ getCall.id = <<"a", "b">>
  /\ getCall.ret = None

\* the Maps, one key each, that lead along path to value
RECURSIVE Nested(_, _)
Nested(path, value) ==
  IF path = <<>> THEN value
  ELSE MapItem([x \in {Head(path)} |-> Nested(Tail(path), value)])

\* C20: when a piece before the final one is a key missing from the Map the
\* identifier has led to, set returns Ok(None) and binds that key to nested
\* Maps, one key each, ending in the value; at the top level nothing else
\* of the state changes, and set("a.b", v) on the empty state yields
\* {"a": Map{"b": v}}.
C20_AutoCreateMaps ==
  SetCalled =>
    /\ \A k \in 1..(Len(setCall.id) - 1) :
         LET parent == IF k = 1 THEN Some(MapItem(setCall.before))
                       ELSE StateGet(setCall.before, Prefix(setCall.id, k - 1))
             rest == SubSeq(setCall.id, k + 1, Len(setCall.id))
         IN (parent.some /\ parent.v.t = "Map" /\ setCall.id[k] \notin DOMAIN parent.v.m) =>
              /\ setCall.ok
              /\ setCall.ret = None
              /\ StateGet(st, Prefix(setCall.id, k)) = Some(Nested(rest, setCall.value))
              /\ k = 1 => st = MapInsert(setCall.before, setCall.id[1],
                                         Nested(rest, setCall.value))
    /\ (setCall.before = EmptyMap /\ setCall.id = <<"a", "b">>) =>
         st = [x \in {"a"} |-> MapItem([y \in {"b"} |-> setCall.value])]

C20_Witness ==
  /\ setCall.id = <<"a", "b", "c">>
  /\ setCall.before = EmptyMap
  /\ setCall.ok
  /\ setCall.ret = None
  /\ st = [x \in {"a"} |-> MapItem([y \in {"b"} |-> MapItem([z \in {"c"} |-> IntValue(1)])])]

\* the op list set_env a := 1; set_env b := get_env a
WriteThenRead ==
  << SetEnvOp(<<"a">>, ItemExpr(IntValue(1))),
     SetEnvOp(<<"b">>, GetEnvExpr(<<"a">>)) >>

\* C21: the program is a left fold: the k-th closure call executes the k-th
\* op on exactly the (payload, state) the previous call returned, starting
\* from (message bytes, empty state); what the fold has reached after k
\* calls is the fold of the first k ops; no call is made after a failed
\* one; and in set_env a := 1; set_env b := get_env a the second op reads
\* the 1 the first op wrote.
C21_LeftFold ==
  /\ [](foldAcc = Fold(SubSeq(foldOps, 1, foldDone), ExecOk(foldMsg, EmptyMap)))
  /\ [](foldDone > 0 =>
          /\ opCall.id = foldDone
          /\ opCall.op = foldOps[foldDone]
          /\ opCall.ret = foldAcc
          /\ foldDone = 1 => (opCall.payload = foldMsg /\ opCall.state = EmptyMap))
  /\ [][foldDone' # foldDone =>
          /\ foldAcc.ok
          /\ foldDone' = foldDone + 1
          /\ opCall'.payload = foldAcc.payload
          /\ opCall'.state = foldAcc.state]_vars
  /\ []((foldOps = WriteThenRead /\ foldDone = 2) =>
          /\ foldAcc.ok
          /\ StateGet(foldAcc.state, <<"b">>) = Some(IntValue(1)))

C21_Witness ==
  /\ foldOps = WriteThenRead
  /\ foldDone = 2
  /\ opCall.state = [x \in {"a"} |-> IntValue(1)]
  /\ StateGet(foldAcc.state, <<"b">>) = Some(IntValue(1))

\* an expression has a set_env in it
RECURSIVE HasSetEnv(_)
HasSetEnv(expr) ==
  CASE expr.e = "SetEnv" -> TRUE
    [] expr.e = "AsMap" -> \E n \in 1..Len(expr.as_map) : HasSetEnv(expr.as_map[n].expr)
    [] OTHER -> FALSE

OpCalled(kind) == foldDone > 0 /\ opCall.op.op = kind
SetUrl == SetEnvExpr(<<"u">>, ItemExpr(StringValue("http://t/")))

\* C22 as stated: the state a to_payload op returns equals the state it
\* received, for every value expression.
C22_ToPayloadStateUnchanged ==
  (OpCalled("ToPayload") /\ opCall.ret.ok) => opCall.ret.state = opCall.state

\* C22, amended: the state a to_payload op returns is the state the
\* evaluation of its value expression returned: the state received when the
\* value has no set_env in it, and the state received with u bound when the
\* value is set_env u := "http://t/".
C22_ToPayloadStateFromValue ==
  (OpCalled("ToPayload") /\ opCall.ret.ok) =>
    /\ opCall.ret.state = Evaluate(opCall.op.value, opCall.payload, opCall.state).state
    /\ ~HasSetEnv(opCall.op.value) => opCall.ret.state = opCall.state
    /\ opCall.op.value = SetUrl =>
         opCall.ret.state = MapInsert(opCall.state, "u", StringValue("http://t/"))

C22_Witness ==
  /\ OpCalled("ToPayload")
  /\ opCall.op.value = SetUrl
  /\ opCall.state = [x \in {"a"} |-> IntValue(1)]
  /\ opCall.ret.ok
  /\ DOMAIN opCall.ret.state = {"a", "u"}

EvalCalled == "expr" \in DOMAIN evalCall
SendCalled == "url" \in DOMAIN sendCall

\* C23: evaluating a from_json expression returns the error value
\* Unimplemented to its caller; the evaluation does not panic.
C23_FromJsonUnimplemented ==
  (EvalCalled /\ evalCall.expr.e = "FromJson") =>
    /\ ~evalCall.ret.ok
    /\ evalCall.ret.err.e = "Unimplemented"

\* C24: a set_env op that succeeds returns the payload bytes it received,
\* whatever its value expression, and the state it returns binds the target
\* to the item the value evaluated to.
C24_SetEnvKeepsPayload ==
  (OpCalled("SetEnv") /\ opCall.ret.ok) =>
    /\ opCall.ret.payload = opCall.payload
    /\ StateGet(opCall.ret.state, opCall.op.target)
         = Some(Evaluate(opCall.op.value, opCall.payload, opCall.state).item)

\* C25: after a to_payload op the payload is the serialization, in the
\* op's format, of the item its value evaluated to, whatever the payload
\* was before: in JSON, get_env a with a = 1 gives 1, as_map {k: 1} gives
\* {"k":1} and the String "http://t/" gives "http://t/" in quotes.
C25_ToPayloadSerializes ==
  (OpCalled("ToPayload") /\ opCall.ret.ok) =>
    LET r == Evaluate(opCall.op.value, opCall.payload, opCall.state)
    IN /\ opCall.ret.payload = ToVec(opCall.op.format, r.item)
       /\ (opCall.op.format = "json" /\ r.item = IntValue(1)) => opCall.ret.payload = "1"
       /\ (opCall.op.format = "json" /\ r.item = NoneValue) => opCall.ret.payload = "null"
       /\ (opCall.op.format = "json" /\ r.item = MapItem([x \in {"k"} |-> IntValue(1)])) =>
            opCall.ret.payload = "{\"k\":1}"
       /\ (opCall.op.format = "json" /\ r.item = StringValue("http://t/")) =>
            opCall.ret.payload = "\"http://t/\""

C25_Witness ==
  /\ OpCalled("ToPayload")
  /\ opCall.op = ToPayloadOp("json", GetEnvExpr(<<"a">>))
  /\ opCall.state = [x \in {"a"} |-> IntValue(1)]
  /\ opCall.payload = "oops"
  /\ opCall.ret.ok
  /\ opCall.ret.payload = "1"

\* what the entries before the n-th have made of (payload, state)
Threaded(entries, n, bytes, env) ==
  EvaluateEntries(SubSeq(entries, 1, n - 1), EmptyMap, bytes, env)

\* C26: a successful as_map evaluates to a Map whose keys are exactly the
\* keys of the expression map; each key is bound to the item its
\* sub-expression evaluated to on the (payload, state) that the entries
\* iterated before it returned; the bindings of nested set_env are in the
\* state returned.  For {x: set_env a := 2, y: get_env a}, in either
\* iteration order x is 2 and a is 2 afterwards; y is 2 when x is iterated
\* first and the earlier value of a (None when absent) otherwise.
C26_AsMap ==
  (EvalCalled /\ evalCall.expr.e = "AsMap" /\ evalCall.ret.ok) =>
    LET entries == evalCall.expr.as_map
        m == evalCall.ret.item.m
        before == StateGet(evalCall.state, <<"a">>)
    IN /\ evalCall.ret.item.t = "Map"
       /\ DOMAIN m = {entries[n].key : n \in 1..Len(entries)}
       /\ \A n \in 1..Len(entries) :
            LET t == Threaded(entries, n, evalCall.payload, evalCall.state)
            IN m[entries[n].key] = Evaluate(entries[n].expr, t.payload, t.state).item
       /\ evalCall.expr \in {SetThenGet, GetThenSet} =>
            /\ m["x"] = IntValue(2)
            /\ StateGet(evalCall.ret.state, <<"a">>) = Some(IntValue(2))
            /\ evalCall.ret.payload = evalCall.payload
       /\ evalCall.expr = SetThenGet => m["y"] = IntValue(2)
       /\ evalCall.expr = GetThenSet =>
            m["y"] = IF before.some THEN before.v ELSE NoneValue

C26_Witness ==
  /\ EvalCalled
  /\ evalCall.expr = SetThenGet
  /\ evalCall.state = EmptyMap
  /\ evalCall.ret.ok
  /\ evalCall.ret.item = MapItem([k \in {"x", "y"} |-> IntValue(2)])
  /\ evalCall.ret.state = [k \in {"a"} |-> IntValue(2)]

\* C27: with an empty op list, while the targets of a message are being
\* called the payload they are given is the bytes of that message and the
\* state they are given is the empty map, for the first message and for
\* every later one.
C27_EmptyProgramIdentity ==
  (ops = <<>> /\ pc = "dispatch") =>
    /\ payload = Bytes(msg)
    /\ state = EmptyMap
    /\ called[msg] = AllEndpoints

C27_Witness ==
  /\ ops = <<>>
  /\ pc = "dispatch"
  /\ msg = 2
  /\ payload = Bytes(2)
  /\ state = EmptyMap

\* C28: the URL of a from_env target is the String bound to the identifier
\* in the state the program returned; when the identifier is absent or
\* bound to something else the URL is "missing url"; a literal URL is used
\* as is; and in each case the request is built and started.
C28_UrlResolution ==
  SendCalled =>
    LET bound == IF sendCall.config.lit THEN None
                 ELSE StateGet(foldAcc.state, sendCall.config.from_env)
    IN /\ sendCall.config.lit => sendCall.url = sendCall.config.s
       /\ (~sendCall.config.lit /\ bound.some /\ bound.v.t = "String") =>
            sendCall.url = bound.v.s
       /\ (~sendCall.config.lit /\ ~(bound.some /\ bound.v.t = "String")) =>
            sendCall.url = "missing url"
       /\ sendCall.executed

\* C29: once the loop has exited on drain no message is removed from the
\* hand-off queue: no send of a puller meets a receive any more, and a
\* puller that holds a message keeps holding it.
C29_NoHandOffAfterExit ==
  [][LoopExited =>
       /\ handed' = handed
       /\ \A p \in Pullers : triggers[p].st = "send" => triggers'[p] = triggers[p]]_vars

\* C30: in get_one a pull response without a message is followed by a
\* sleep before the next pull; wait_time is 1.0 when a call starts, the
\* first call and every call after a message was returned; it is multiplied
\* by 1.25 after each sleep and never exceeds 10.
C30_Backoff ==
  /\ [][(pulls' # pulls /\ pullResp' \in {"None", "Empty"}) => goPc' = "sleep"]_vars
  /\ [][(goPc \in {"idle", "returned"} /\ goPc' = "pull") => wait_time' = WaitUnit]_vars
  /\ [][(goPc = "sleep" /\ goPc' = "pull") =>
          \/ wait_time' * 4 = wait_time * 5
          \/ wait_time' = WaitCap /\ wait_time * 5 > WaitCap * 4]_vars
  /\ [](goPc # "idle" => (wait_time >= WaitUnit /\ wait_time <= WaitCap))

\* C31: a set that returns NonMapAccess, IndexOutOfBound or InvalidIndex
\* leaves the state as it was before the call: the whole state is equal to
\* the one before, so no Map was created on the way and no binding changed.
C31_FailedSetKeepsState ==
  (SetCalled /\ ~setCall.ok) =>
    /\ setCall.ret.e \in {"NonMapAccess", "IndexOutOfBound", "InvalidIndex"}
    /\ st = setCall.before
    /\ \A id \in Ids : StateGet(st, id) = StateGet(setCall.before, id)

C31_Witness ==
  /\ setCall.id = <<"a", "1", "b">>
  /\ ~setCall.ok
  /\ setCall.ret = IndexOutOfBound(1, 1)
  /\ setCall.before = [x \in {"a"} |-> VecItem(<<IntValue(2)>>)]
  /\ st = setCall.before

\* messages returned by get_one and not acked yet
Unacked == {m \in 1..produced : ackCount[m] = 0}
\* pullers blocked in the hand-off of a message
Waiting == {p \in Pullers : triggers[p].st = "send"}
\* what the loop side holds: the message the recv task has taken, or the
\* message of the iteration
LoopSide ==
  (IF new_message.st = "ready" THEN {new_message.msg} ELSE {})
    \cup (IF msg # NoMsg /\ ackCount[msg] = 0 THEN {msg} ELSE {})

C33_DrainNeverLost ==
  (calls > 0) ~> LoopExited

====
